---- MODULE Spec2Model ----
\* Appointment booking server (src/server.js): GET and POST /api/appointments
\* over a JSON file (local) or an in-memory array (Vercel), with e-mail
\* notifications awaited before the 201 answer.
EXTENDS FiniteSets, Integers, Sequences, TLC

\* ---------------------------------------------------------------- bounds
MaxReq == 2          \* book requests made in all
MaxClock == 10       \* last reading of the millisecond clock (the first is 9)

Reqs == 1..MaxReq
NoReq == 0

\* ---------------------------------------------------------------- values
\* A property the JSON body does not carry reads as undefined.
Undefined == "<undefined>"

\* req.body after destructuring (patientPhone, patientAdhaar and concern are
\* copied through untouched and are left out).
Body(d, t, n, e) ==
    [appointment_date |-> d, appointment_time |-> t,
     patientName |-> n, patientEmail |-> e]

\* The bodies requests carry: a booking with an e-mail address (sent again, it
\* asks for the same slot), a booking of a second slot without one, and bodies
\* lacking one required field each.
Bodies ==
    {Body("2024-06-01", "10:00", "Asha", "asha@example.com"),
     Body("2024-06-01", "11:00", "Asha", Undefined),
     Body(Undefined, "10:00", "Asha", Undefined),
     Body("2024-06-01", "", "Asha", Undefined),
     Body("2024-06-01", "10:00", "", Undefined)}

NoBody == Body(Undefined, Undefined, Undefined, Undefined)

\* A presence test that lets the empty string through.
Falsy_UndefinedOnly(v) == v = Undefined

\* JavaScript's !v on the values of the model: undefined and "" are falsy.
Falsy(v) == v \in {Undefined, ""}

\* Reading a property of an object: undefined when the object lacks it.
Get(obj, k) == IF k \in DOMAIN obj THEN obj[k] ELSE Undefined

\* Number.prototype.toString() on a non-negative integer.
Digit(d) ==
    CASE d = 0 -> "0" [] d = 1 -> "1" [] d = 2 -> "2" [] d = 3 -> "3"
      [] d = 4 -> "4" [] d = 5 -> "5" [] d = 6 -> "6" [] d = 7 -> "7"
      [] d = 8 -> "8" [] d = 9 -> "9"

RECURSIVE NumberToString(_)
NumberToString(n) ==
    IF n < 10 THEN Digit(n) ELSE NumberToString(n \div 10) \o Digit(n % 10)

\* Date.prototype.toISOString() of an instant less than a second after the epoch.
ToISOString(ms) ==
    "1970-01-01T00:00:00."
        \o (IF ms < 10 THEN "00" ELSE IF ms < 100 THEN "0" ELSE "")
        \o NumberToString(ms) \o "Z"

\* JSON.stringify of an array of objects: each object becomes the set of its
\* key/value members, a member whose value is undefined being dropped.
JSONstringify(arr) ==
    [i \in DOMAIN arr |->
        {<<k, arr[i][k]>> : k \in {f \in DOMAIN arr[i] : arr[i][f] # Undefined}}]

\* JSON.parse of such a document: each member set becomes an object.
JSONparse(doc) ==
    [i \in DOMAIN doc |->
        [k \in {m[1] : m \in doc[i]} |-> (CHOOSE m \in doc[i] : m[1] = k)[2]]]

\* What a client receives from res.json(arr): the array serialised and parsed.
Wire(arr) == JSONparse(JSONstringify(arr))

\* ---------------------------------------------------------------- state
VARIABLES
    IS_VERCEL,             \* process.env.VERCEL === '1'
    file,                  \* the document in DATA_FILE
    inMemoryAppointments,  \* the module-level array
    now,                   \* the latest reading of the millisecond clock
    running,               \* the request whose handler holds the event loop
    pc,                    \* each book request's position in its handler
    body,                  \* each book request's req.body
    appointments,          \* each book handler's local array
    newAppointment,        \* each book handler's created record
    res,                   \* each book request's answer
    lastList,              \* the answer to the latest GET since a book request last began
    persisted,             \* requests past their save step, in that order
    seen,                  \* per request: `persisted` when it started
    readFailed,            \* per handler in its turn: its readFileSync/JSON.parse threw
    writeFailed,           \* per request: its writeFileSync threw
    mail,                  \* per running handler: the notification calls it has made
    mailFailed,            \* the request whose notification call rejected latest
    startedEmpty,          \* the collection was empty when the process started
    storageFailed          \* a read or write of a book request has failed in this process

procVars == <<IS_VERCEL, file, inMemoryAppointments, now, running>>
reqVars == <<pc, body, appointments, newAppointment, res>>
histVars ==
    <<lastList, persisted, seen, readFailed, writeFailed, mail, mailFailed,
      startedEmpty, storageFailed>>
vars == <<procVars, reqVars, histVars>>

\* Node runs one handler turn at a time: a turn that has begun goes on unless
\* another handler holds the event loop.
MayRun(r) == running \in {NoReq, r}

NoAnswer == [status |-> 0, error |-> "", json |-> <<>>]
Answer(status, json) == [status |-> status, error |-> "", json |-> json]
Failure(status, error) == [status |-> status, error |-> error, json |-> <<>>]

\* ---------------------------------------------------------------- start-up
\* Lines 45-59: the module-level array starts empty and, off Vercel, is loaded
\* from the file; a read or parse error leaves it empty.
StartupLoad(vercel, doc, fail) ==
    IF vercel \/ fail THEN <<>> ELSE JSONparse(doc)

Init ==
    /\ IS_VERCEL \in BOOLEAN
    /\ file = JSONstringify(<<>>)
    /\ inMemoryAppointments = StartupLoad(IS_VERCEL, file, FALSE)
    /\ now = 9
    /\ running = NoReq
    /\ pc = [r \in Reqs |-> "idle"]
    /\ body = [r \in Reqs |-> NoBody]
    /\ appointments = [r \in Reqs |-> <<>>]
    /\ newAppointment = [r \in Reqs |-> <<>>]
    /\ res = [r \in Reqs |-> NoAnswer]
    /\ lastList = NoAnswer
    /\ persisted = <<>>
    /\ seen = [r \in Reqs |-> <<>>]
    /\ readFailed = [r \in Reqs |-> FALSE]
    /\ writeFailed = [r \in Reqs |-> FALSE]
    /\ mail = [r \in Reqs |-> {}]
    /\ mailFailed = NoReq
    /\ startedEmpty = TRUE
    /\ storageFailed = FALSE

\* ---------------------------------------------------------------- GET
\* A GET handler that keeps what it read in the module-level array.
ListAll_Caching ==
    /\ running = NoReq
    /\ \E fail \in (IF IS_VERCEL THEN {FALSE} ELSE BOOLEAN) :
        IF IS_VERCEL
        THEN /\ lastList' = Answer(200, Wire(inMemoryAppointments))
             /\ UNCHANGED inMemoryAppointments
        ELSE IF fail
        THEN /\ lastList' = Failure(500, "Failed to read appointments")
             /\ UNCHANGED inMemoryAppointments
        ELSE /\ lastList' = Answer(200, Wire(JSONparse(file)))
             /\ inMemoryAppointments' = JSONparse(file)
    /\ UNCHANGED <<IS_VERCEL, file, now, running, reqVars>>
    /\ UNCHANGED <<persisted, seen, readFailed, writeFailed, mail, mailFailed>>
    /\ UNCHANGED <<startedEmpty, storageFailed>>

\* Lines 62-78. The handler has no await: it runs to completion in one turn
\* of the event loop. Only the read of the file can fail.
ListAll ==
    /\ running = NoReq
    /\ \E fail \in (IF IS_VERCEL THEN {FALSE} ELSE BOOLEAN) :
        lastList' =
            IF IS_VERCEL
            THEN Answer(200, Wire(inMemoryAppointments))
            ELSE IF fail
            THEN Failure(500, "Failed to read appointments")
            ELSE Answer(200, Wire(JSONparse(file)))
    /\ UNCHANGED <<procVars, reqVars>>
    /\ UNCHANGED <<persisted, seen, readFailed, writeFailed, mail, mailFailed>>
    /\ UNCHANGED <<startedEmpty, storageFailed>>

\* ---------------------------------------------------------------- POST
\* A validation that does not test the name.
MissingFields_NoName(b) ==
    Falsy(b.appointment_date) \/ Falsy(b.appointment_time)

\* Line 86.
MissingFields(b) ==
    Falsy(b.appointment_date) \/ Falsy(b.appointment_time) \/ Falsy(b.patientName)

\* Lines 81-88: a request arrives when the event loop is free; requests are
\* numbered in their order of arrival.
BookValidate(r, b) ==
    /\ running = NoReq
    /\ pc[r] = "idle"
    /\ \A q \in Reqs : q < r => pc[q] # "idle"
    /\ body' = [body EXCEPT ![r] = b]
    /\ seen' = [seen EXCEPT ![r] = persisted]
    /\ lastList' = NoAnswer
    /\ IF MissingFields(b)
       THEN /\ res' = [res EXCEPT ![r] = Failure(400, "Missing required fields")]
            /\ pc' = [pc EXCEPT ![r] = "done"]
            /\ UNCHANGED running
       ELSE /\ pc' = [pc EXCEPT ![r] = "load"]
            /\ running' = r
            /\ UNCHANGED res
    /\ UNCHANGED <<IS_VERCEL, file, inMemoryAppointments, now>>
    /\ UNCHANGED <<appointments, newAppointment>>
    /\ UNCHANGED <<persisted, readFailed, writeFailed, mail, mailFailed>>
    /\ UNCHANGED <<startedEmpty, storageFailed>>

\* BookLoad with an awaited read: the handler gives up the event loop between
\* its load and its conflict check.
BookLoad_Await(r) ==
    /\ MayRun(r)
    /\ pc[r] = "load"
    /\ \E fail \in (IF IS_VERCEL THEN {FALSE} ELSE BOOLEAN) :
        IF IS_VERCEL
        THEN /\ appointments' = [appointments EXCEPT ![r] = inMemoryAppointments]
             /\ UNCHANGED <<readFailed, storageFailed>>
        ELSE IF fail
        THEN /\ appointments' = [appointments EXCEPT ![r] = <<>>]
             /\ readFailed' = [readFailed EXCEPT ![r] = TRUE]
             /\ storageFailed' = TRUE
        ELSE /\ appointments' = [appointments EXCEPT ![r] = JSONparse(file)]
             /\ UNCHANGED <<readFailed, storageFailed>>
    /\ pc' = [pc EXCEPT ![r] = "check"]
    /\ running' = NoReq
    /\ UNCHANGED <<IS_VERCEL, file, inMemoryAppointments, now>>
    /\ UNCHANGED <<body, newAppointment, res>>
    /\ UNCHANGED <<lastList, persisted, seen, writeFailed, mail, mailFailed, startedEmpty>>

\* BookLoad falling back on the module-level array when the read fails.
BookLoad_MemoryFallback(r) ==
    /\ MayRun(r)
    /\ pc[r] = "load"
    /\ \E fail \in (IF IS_VERCEL THEN {FALSE} ELSE BOOLEAN) :
        IF IS_VERCEL
        THEN /\ appointments' = [appointments EXCEPT ![r] = inMemoryAppointments]
             /\ UNCHANGED <<readFailed, storageFailed>>
        ELSE IF fail
        THEN /\ appointments' = [appointments EXCEPT ![r] = inMemoryAppointments]
             /\ readFailed' = [readFailed EXCEPT ![r] = TRUE]
             /\ storageFailed' = TRUE
        ELSE /\ appointments' = [appointments EXCEPT ![r] = JSONparse(file)]
             /\ UNCHANGED <<readFailed, storageFailed>>
    /\ pc' = [pc EXCEPT ![r] = "check"]
    /\ running' = r
    /\ UNCHANGED <<IS_VERCEL, file, inMemoryAppointments, now>>
    /\ UNCHANGED <<body, newAppointment, res>>
    /\ UNCHANGED <<lastList, persisted, seen, writeFailed, mail, mailFailed, startedEmpty>>

\* Lines 90-103. On Vercel the local array IS the module-level array.
BookLoad(r) ==
    /\ MayRun(r)
    /\ pc[r] = "load"
    /\ \E fail \in (IF IS_VERCEL THEN {FALSE} ELSE BOOLEAN) :
        IF IS_VERCEL
        THEN /\ appointments' = [appointments EXCEPT ![r] = inMemoryAppointments]
             /\ UNCHANGED <<readFailed, storageFailed>>
        ELSE IF fail
        THEN /\ appointments' = [appointments EXCEPT ![r] = <<>>]
             /\ readFailed' = [readFailed EXCEPT ![r] = TRUE]
             /\ storageFailed' = TRUE
        ELSE /\ appointments' = [appointments EXCEPT ![r] = JSONparse(file)]
             /\ UNCHANGED <<readFailed, storageFailed>>
    /\ pc' = [pc EXCEPT ![r] = "check"]
    /\ running' = r
    /\ UNCHANGED <<IS_VERCEL, file, inMemoryAppointments, now>>
    /\ UNCHANGED <<body, newAppointment, res>>
    /\ UNCHANGED <<lastList, persisted, seen, writeFailed, mail, mailFailed, startedEmpty>>

\* isTaken reading the records' time under a property name they do not have.
isTaken_WrongProperty(appts, appointment_date, appointment_time) ==
    \E i \in DOMAIN appts :
        /\ Get(appts[i], "appointment_date") = appointment_date
        /\ Get(appts[i], "time") = appointment_time

\* Lines 106-109.
isTaken(appts, appointment_date, appointment_time) ==
    \E i \in DOMAIN appts :
        /\ Get(appts[i], "appointment_date") = appointment_date
        /\ Get(appts[i], "appointment_time") = appointment_time

\* Lines 105-113.
BookCheck(r) ==
    /\ MayRun(r)
    /\ pc[r] = "check"
    /\ IF isTaken(appointments[r], body[r].appointment_date, body[r].appointment_time)
       THEN /\ res' = [res EXCEPT ![r] = Failure(409, "This time slot is already booked.")]
            /\ pc' = [pc EXCEPT ![r] = "done"]
            /\ appointments' = [appointments EXCEPT ![r] = <<>>]
            /\ readFailed' = [readFailed EXCEPT ![r] = FALSE]
            /\ running' = NoReq
       ELSE /\ pc' = [pc EXCEPT ![r] = "create"]
            /\ UNCHANGED <<res, appointments, readFailed, running>>
    /\ UNCHANGED <<IS_VERCEL, file, inMemoryAppointments, now>>
    /\ UNCHANGED <<body, newAppointment>>
    /\ UNCHANGED <<lastList, persisted, seen, writeFailed, mail, mailFailed>>
    /\ UNCHANGED <<startedEmpty, storageFailed>>

\* Lines 115-125 (both clock readings fall in the same turn of the loop).
NewAppointment(b, t) ==
    [id |-> NumberToString(t),
     appointment_date |-> b.appointment_date,
     appointment_time |-> b.appointment_time,
     patientName |-> b.patientName,
     patientEmail |-> b.patientEmail,
     createdAt |-> ToISOString(t)]

\* An insertion at the front of the array.
Push_Unshift(arr, x) == <<x>> \o arr

\* Line 127: Array.prototype.push.
Push(arr, x) == Append(arr, x)

\* Lines 115-127. Date.now() reads a clock that never runs backwards. On
\* Vercel the push lands in the module-level array itself.
BookCreate(r) ==
    /\ MayRun(r)
    /\ pc[r] = "create"
    /\ \E t \in now..MaxClock :
        /\ now' = t
        /\ newAppointment' = [newAppointment EXCEPT ![r] = NewAppointment(body[r], t)]
    /\ appointments' = [appointments EXCEPT ![r] = Push(@, newAppointment'[r])]
    /\ inMemoryAppointments' =
        IF IS_VERCEL THEN appointments'[r] ELSE inMemoryAppointments
    /\ pc' = [pc EXCEPT ![r] = "save"]
    /\ UNCHANGED <<IS_VERCEL, file, running, body, res, histVars>>

\* Line 136: what writeFileSync leaves in the file when it succeeds.
Written(arr) == JSONstringify(arr)

\* BookSave without the try/catch around writeFileSync: the error reaches the
\* handler's outer catch.
BookSave_Uncaught(r) ==
    /\ MayRun(r)
    /\ pc[r] = "save"
    /\ \E fail \in (IF IS_VERCEL THEN {FALSE} ELSE BOOLEAN) :
        IF IS_VERCEL
        THEN /\ inMemoryAppointments' = appointments[r]
             /\ persisted' = Append(persisted, r)
             /\ pc' = [pc EXCEPT ![r] = "notify"]
             /\ UNCHANGED <<file, writeFailed, storageFailed, res, running>>
             /\ UNCHANGED <<appointments, readFailed>>
        ELSE IF ~fail
        THEN /\ file' = Written(appointments[r])
             /\ persisted' = Append(persisted, r)
             /\ pc' = [pc EXCEPT ![r] = "notify"]
             /\ UNCHANGED <<inMemoryAppointments, writeFailed, storageFailed, res, running>>
             /\ UNCHANGED <<appointments, readFailed>>
        ELSE /\ res' = [res EXCEPT ![r] = Failure(500, "Failed to save appointment")]
             /\ pc' = [pc EXCEPT ![r] = "done"]
             /\ writeFailed' = [writeFailed EXCEPT ![r] = TRUE]
             /\ storageFailed' = TRUE
             /\ appointments' = [appointments EXCEPT ![r] = <<>>]
             /\ readFailed' = [readFailed EXCEPT ![r] = FALSE]
             /\ running' = NoReq
             /\ UNCHANGED <<file, inMemoryAppointments, persisted>>
    /\ lastList' = NoAnswer
    /\ UNCHANGED <<IS_VERCEL, now, body, newAppointment>>
    /\ UNCHANGED <<seen, mail, mailFailed, startedEmpty>>

\* Lines 129-141. A writeFileSync that throws (a read-only filesystem, a
\* refused open) leaves the file as it was.
BookSave(r) ==
    /\ MayRun(r)
    /\ pc[r] = "save"
    /\ \E fail \in (IF IS_VERCEL THEN {FALSE} ELSE BOOLEAN) :
        IF IS_VERCEL
        THEN /\ inMemoryAppointments' = appointments[r]
             /\ UNCHANGED <<file, writeFailed, storageFailed>>
        ELSE IF ~fail
        THEN /\ file' = Written(appointments[r])
             /\ UNCHANGED <<inMemoryAppointments, writeFailed, storageFailed>>
        ELSE /\ inMemoryAppointments' = appointments[r]
             /\ writeFailed' = [writeFailed EXCEPT ![r] = TRUE]
             /\ storageFailed' = TRUE
             /\ UNCHANGED file
    /\ persisted' = Append(persisted, r)
    /\ lastList' = NoAnswer
    /\ pc' = [pc EXCEPT ![r] = "notify"]
    /\ UNCHANGED <<IS_VERCEL, now, running, body, appointments, newAppointment, res>>
    /\ UNCHANGED <<seen, readFailed, mail, mailFailed, startedEmpty>>

\* Line 305.
Created(r) == Answer(201, Wire(<<newAppointment[r]>>))

\* Lines 143-154 and 300-305: the .env file is read afresh; with credentials
\* the handler awaits transporter.verify(), without them it answers at once.
BookNotify(r) ==
    /\ MayRun(r)
    /\ pc[r] = "notify"
    /\ \E credentials \in BOOLEAN :
        IF credentials
        THEN /\ mail' = [mail EXCEPT ![r] = {"verify"}]
             /\ pc' = [pc EXCEPT ![r] = "verify"]
             /\ UNCHANGED res
        ELSE /\ res' = [res EXCEPT ![r] = Created(r)]
             /\ pc' = [pc EXCEPT ![r] = "done"]
             /\ UNCHANGED mail
    /\ appointments' = [appointments EXCEPT ![r] = <<>>]
    /\ readFailed' = [readFailed EXCEPT ![r] = FALSE]
    /\ running' = NoReq
    /\ UNCHANGED <<IS_VERCEL, file, inMemoryAppointments, now>>
    /\ UNCHANGED <<body, newAppointment>>
    /\ UNCHANGED <<lastList, persisted, seen, writeFailed, mailFailed, startedEmpty, storageFailed>>

\* Lines 174-229: verify() settles; its rejection is caught and logged, and
\* the admin mail is sent either way.
VerifyDone(r, ok) ==
    /\ running = NoReq
    /\ pc[r] = "verify"
    /\ mailFailed' = (IF ok THEN mailFailed ELSE r)
    /\ mail' = [mail EXCEPT ![r] = @ \cup {"admin"}]
    /\ pc' = [pc EXCEPT ![r] = "admin"]
    /\ UNCHANGED <<procVars, body, appointments, newAppointment, res>>
    /\ UNCHANGED <<lastList, persisted, seen, readFailed, writeFailed, startedEmpty, storageFailed>>

\* AdminDone without the test of patientEmail: the patient mail is sent to
\* whatever address the body carried, or to none.
AdminDone_PatientAlways(r, ok) ==
    /\ running = NoReq
    /\ pc[r] = "admin"
    /\ mailFailed' = (IF ok THEN mailFailed ELSE r)
    /\ mail' = [mail EXCEPT ![r] = @ \cup {"patient"}]
    /\ pc' = [pc EXCEPT ![r] = "patient"]
    /\ UNCHANGED <<procVars, body, appointments, newAppointment, res>>
    /\ UNCHANGED <<lastList, persisted, seen, readFailed, writeFailed>>
    /\ UNCHANGED <<startedEmpty, storageFailed>>

\* AdminDone without the try/catch around sendMail: a rejection reaches the
\* handler's outer catch.
AdminDone_Uncaught(r, ok) ==
    /\ running = NoReq
    /\ pc[r] = "admin"
    /\ mailFailed' = (IF ok THEN mailFailed ELSE r)
    /\ IF ~ok
       THEN /\ res' = [res EXCEPT ![r] = Failure(500, "Failed to save appointment")]
            /\ pc' = [pc EXCEPT ![r] = "done"]
            /\ mail' = [mail EXCEPT ![r] = {}]
       ELSE IF ~Falsy(body[r].patientEmail)
       THEN /\ mail' = [mail EXCEPT ![r] = @ \cup {"patient"}]
            /\ pc' = [pc EXCEPT ![r] = "patient"]
            /\ UNCHANGED res
       ELSE /\ res' = [res EXCEPT ![r] = Answer(201, Wire(<<newAppointment[r]>>))]
            /\ pc' = [pc EXCEPT ![r] = "done"]
            /\ mail' = [mail EXCEPT ![r] = {}]
    /\ UNCHANGED <<procVars, body, appointments, newAppointment>>
    /\ UNCHANGED <<lastList, persisted, seen, readFailed, writeFailed, startedEmpty, storageFailed>>

\* Lines 228-305: the admin sendMail settles; the patient mail is sent only
\* when the body carried a patientEmail.
AdminDone(r, ok) ==
    /\ running = NoReq
    /\ pc[r] = "admin"
    /\ mailFailed' = (IF ok THEN mailFailed ELSE r)
    /\ IF ~Falsy(body[r].patientEmail)
       THEN /\ mail' = [mail EXCEPT ![r] = @ \cup {"patient"}]
            /\ pc' = [pc EXCEPT ![r] = "patient"]
            /\ UNCHANGED res
       ELSE /\ res' = [res EXCEPT ![r] = Created(r)]
            /\ pc' = [pc EXCEPT ![r] = "done"]
            /\ mail' = [mail EXCEPT ![r] = {}]
    /\ UNCHANGED <<procVars, body, appointments, newAppointment>>
    /\ UNCHANGED <<lastList, persisted, seen, readFailed, writeFailed, startedEmpty, storageFailed>>

\* Lines 291-305: the patient sendMail settles.
PatientDone(r, ok) ==
    /\ running = NoReq
    /\ pc[r] = "patient"
    /\ mailFailed' = (IF ok THEN mailFailed ELSE r)
    /\ res' = [res EXCEPT ![r] = Created(r)]
    /\ pc' = [pc EXCEPT ![r] = "done"]
    /\ mail' = [mail EXCEPT ![r] = {}]
    /\ UNCHANGED <<procVars, body, appointments, newAppointment>>
    /\ UNCHANGED <<lastList, persisted, seen, readFailed, writeFailed, startedEmpty, storageFailed>>

\* ---------------------------------------------------------------- environment
\* A start-up that writes the empty array to the file without testing
\* whether the file exists.
Restart_Truncating ==
    /\ now < MaxClock
    /\ now' = now + 1
    /\ file' = (IF IS_VERCEL THEN file ELSE JSONstringify(<<>>))
    /\ \E fail \in (IF IS_VERCEL THEN {FALSE} ELSE BOOLEAN) :
        inMemoryAppointments' = StartupLoad(IS_VERCEL, file', fail)
    /\ running' = NoReq
    /\ pc' = [r \in Reqs |-> IF pc[r] = "idle" THEN "idle" ELSE "gone"]
    /\ body' = [r \in Reqs |-> NoBody]
    /\ appointments' = [r \in Reqs |-> <<>>]
    /\ newAppointment' = [r \in Reqs |-> <<>>]
    /\ res' = [r \in Reqs |-> NoAnswer]
    /\ lastList' = NoAnswer
    /\ persisted' = <<>>
    /\ seen' = [r \in Reqs |-> <<>>]
    /\ readFailed' = [r \in Reqs |-> FALSE]
    /\ writeFailed' = [r \in Reqs |-> FALSE]
    /\ mail' = [r \in Reqs |-> {}]
    /\ mailFailed' = NoReq
    /\ startedEmpty' = TRUE
    /\ storageFailed' = FALSE
    /\ UNCHANGED IS_VERCEL

\* The process is stopped and started again (lines 41-59 run anew): the
\* requests of the old process are gone, answered or not; the file stays and
\* the module-level array is rebuilt. Requests not yet made go to the new one.
\* A restart takes more than a millisecond.
Restart ==
    /\ now < MaxClock
    /\ now' = now + 1
    /\ \E fail \in (IF IS_VERCEL THEN {FALSE} ELSE BOOLEAN) :
        inMemoryAppointments' = StartupLoad(IS_VERCEL, file, fail)
    /\ running' = NoReq
    /\ pc' = [r \in Reqs |-> IF pc[r] = "idle" THEN "idle" ELSE "gone"]
    /\ body' = [r \in Reqs |-> NoBody]
    /\ appointments' = [r \in Reqs |-> <<>>]
    /\ newAppointment' = [r \in Reqs |-> <<>>]
    /\ res' = [r \in Reqs |-> NoAnswer]
    /\ lastList' = NoAnswer
    /\ persisted' = <<>>
    /\ seen' = [r \in Reqs |-> <<>>]
    /\ readFailed' = [r \in Reqs |-> FALSE]
    /\ writeFailed' = [r \in Reqs |-> FALSE]
    /\ mail' = [r \in Reqs |-> {}]
    /\ mailFailed' = NoReq
    /\ startedEmpty' = (IS_VERCEL \/ file = <<>>)
    /\ storageFailed' = FALSE
    /\ UNCHANGED <<IS_VERCEL, file>>

Next ==
    \/ ListAll
    \/ \E r \in Reqs, b \in Bodies : BookValidate(r, b)
    \/ \E r \in Reqs : BookLoad(r)
    \/ \E r \in Reqs : BookCheck(r)
    \/ \E r \in Reqs : BookCreate(r)
    \/ \E r \in Reqs : BookSave(r)
    \/ \E r \in Reqs : BookNotify(r)
    \/ \E r \in Reqs, ok \in BOOLEAN : VerifyDone(r, ok)
    \/ \E r \in Reqs, ok \in BOOLEAN : AdminDone(r, ok)
    \/ \E r \in Reqs, ok \in BOOLEAN : PatientDone(r, ok)
    \/ Restart

Spec == Init /\ [][Next]_vars

\* The synchronous part of a book handler (lines 90-154): once its turn has
\* begun, Node runs it to the first await or to the answer. When a call to
\* the mail transport settles is up to the transport.
Turn(r) == BookLoad(r) \/ BookCheck(r) \/ BookCreate(r) \/ BookSave(r) \/ BookNotify(r)

FairSpec == Spec /\ \A r \in Reqs : WF_vars(Turn(r))

\* ---------------------------------------------------------------- properties
\* The collection GET /api/appointments reads.
Stored == IF IS_VERCEL THEN inMemoryAppointments ELSE JSONparse(file)

Range(f) == {f[i] : i \in DOMAIN f}
SlotOf(x) == <<Get(x, "appointment_date"), Get(x, "appointment_time")>>
NoDuplicateSlots(arr) ==
    \A i, j \in DOMAIN arr : i # j => SlotOf(arr[i]) # SlotOf(arr[j])
IsPrefix(s, t) == Len(s) <= Len(t) /\ \A i \in DOMAIN s : s[i] = t[i]

\* The record of request r as a client or the file sees it.
RecordOf(r) == Wire(<<newAppointment[r]>>)[1]

InTurn == {"load", "check", "create", "save", "notify"}
Mailing == {"verify", "admin", "patient"}
Started(r) == pc[r] \notin {"idle", "gone"}

\* C1: in every reachable state neither the file nor the module-level array
\* holds two records with the same (appointment_date, appointment_time),
\* storage failures included.
C1_NoSlotStoredTwice ==
    /\ NoDuplicateSlots(JSONparse(file))
    /\ NoDuplicateSlots(inMemoryAppointments)

\* Two requests for one slot both got past their save step, one through a
\* failed write, and the file holds a record.
C1_Witness ==
    \E r, q \in Range(persisted) :
        /\ r # q
        /\ SlotOf(body[r]) = SlotOf(body[q])
        /\ writeFailed[r]
        /\ Len(file) = 1
        /\ Len(inMemoryAppointments) = 1

\* C2: no two book requests answered 201 by one process are for the same
\* (appointment_date, appointment_time).
C2_NoSlotCreatedTwice ==
    \A r, q \in Reqs :
        (r # q /\ res[r].status = 201 /\ res[q].status = 201)
            => SlotOf(body[r]) # SlotOf(body[q])

\* C3: a book request's load, check, append and persist run in one turn of
\* the event loop. No other request takes a step while one is in its turn;
\* the array a handler checks and extends is the stored collection as it is
\* at that moment; and two requests for one slot never both get past the
\* check while no storage operation of a book request has failed.
C3_TurnIsExclusive ==
    /\ \A r \in Reqs : pc[r] \in InTurn <=> running = r
    /\ \A r \in Reqs :
        (pc[r] \in {"check", "create"} /\ ~readFailed[r]) => appointments[r] = Stored
    /\ \A r \in Reqs :
        (pc[r] = "save" /\ ~readFailed[r]) =>
            IF IS_VERCEL
            THEN appointments[r] = inMemoryAppointments
            ELSE /\ Len(appointments[r]) = Len(JSONparse(file)) + 1
                 /\ IsPrefix(JSONparse(file), appointments[r])
    /\ \A r, q \in Range(persisted) :
        (r # q /\ SlotOf(body[r]) = SlotOf(body[q])) => storageFailed

C3_NoStepInsideATurn ==
    \A r \in Reqs :
        (pc[r] \in InTurn /\ pc'[r] # "gone") =>
            /\ \A q \in Reqs \ {r} : pc'[q] = pc[q] /\ res'[q] = res[q]
            /\ lastList' # lastList => lastList' = NoAnswer

C3_Serialized == []C3_TurnIsExclusive /\ [][C3_NoStepInsideATurn]_vars

\* A request for a slot was turned away with 409 while the request holding
\* the slot was still awaiting its notifications, no storage operation failing.
C3_Witness ==
    \E r, q \in Reqs :
        /\ pc[r] \in Mailing
        /\ res[q].status = 409
        /\ SlotOf(body[r]) = SlotOf(body[q])
        /\ ~storageFailed

\* C4: a request with all required fields for a slot, starting after another
\* request for that slot finished its save step, is answered 409 'This time
\* slot is already booked.', and the collection holds one record for the
\* slot, the earlier request's.
C4_LaterRequestRejected ==
    \A q \in Reqs : \A r \in Range(seen[q]) :
        (/\ SlotOf(body[r]) = SlotOf(body[q])
         /\ ~MissingFields(body[q])
         /\ pc[q] \notin {"idle", "load", "check"}) =>
            /\ res[q] = Failure(409, "This time slot is already booked.")
            /\ \E i \in DOMAIN Stored :
                /\ Stored[i] = RecordOf(r)
                /\ \A j \in DOMAIN Stored : SlotOf(Stored[j]) = SlotOf(body[q]) => j = i

\* C5: a book request whose date, time or name is undefined or empty is
\* answered 400 'Missing required fields' at once; the step changes neither
\* the file nor the module-level array, and the request never sends mail or
\* reaches the save step.
C5_Lacks(b) ==
    \/ b.appointment_date \in {Undefined, ""}
    \/ b.appointment_time \in {Undefined, ""}
    \/ b.patientName \in {Undefined, ""}

C5_Rejected ==
    \A r \in Reqs :
        (Started(r) /\ C5_Lacks(body[r])) =>
            /\ res[r] = Failure(400, "Missing required fields")
            /\ pc[r] = "done"
            /\ mail[r] = {}
            /\ \A i \in DOMAIN persisted : persisted[i] # r

C5_StepChangesNothing ==
    \A r \in Reqs :
        (pc[r] = "idle" /\ pc'[r] # "idle" /\ C5_Lacks(body'[r])) =>
            /\ file' = file
            /\ inMemoryAppointments' = inMemoryAppointments

C5_MissingFieldsRejected == []C5_Rejected /\ [][C5_StepChangesNothing]_vars

\* A request with an empty name was answered 400 for a slot that is occupied.
C5_Witness ==
    \E r \in Reqs :
        /\ res[r].status = 400
        /\ body[r].patientName = ""
        /\ \E i \in DOMAIN Stored : SlotOf(Stored[i]) = SlotOf(body[r])

\* C6: off Vercel, a book request whose file write failed is answered 201
\* with its record, and a GET answered afterwards by the same process lists
\* that record.
C6_FailedWriteStillListed ==
    \A i \in DOMAIN persisted :
        (~IS_VERCEL /\ writeFailed[persisted[i]]) =>
            /\ res[persisted[i]].status # 0 =>
                res[persisted[i]] = Answer(201, <<RecordOf(persisted[i])>>)
            /\ lastList.status = 200 => RecordOf(persisted[i]) \in Range(lastList.json)

\* C7: from an empty collection, while no storage operation fails and the
\* requests made have all required fields and pairwise distinct slots, no
\* request is answered anything but 201 with its record, and GET returns the
\* records of the requests past their save step, once each, in that order.
C7_Booked == [i \in DOMAIN persisted |-> RecordOf(persisted[i])]

C7_Applies ==
    /\ startedEmpty
    /\ ~storageFailed
    /\ lastList.status # 500
    /\ \A r \in Reqs : Started(r) => ~C5_Lacks(body[r])
    /\ \A r, q \in Reqs :
        (Started(r) /\ Started(q) /\ r # q) => SlotOf(body[r]) # SlotOf(body[q])

C7_DistinctSlotsAllBooked ==
    C7_Applies =>
        /\ \A r \in Reqs :
            res[r].status # 0 => res[r] = Answer(201, <<RecordOf(r)>>)
        /\ \A r \in Reqs : pc[r] = "done" => \E i \in DOMAIN persisted : persisted[i] = r
        /\ lastList.status = 200 => lastList.json = C7_Booked
        /\ running = NoReq => Wire(Stored) = C7_Booked

\* Two requests for different slots were answered 201 and a GET listed both.
C7_Witness ==
    /\ C7_Applies
    /\ \A r \in {1, 2} : res[r].status = 201
    /\ lastList.status = 200
    /\ Len(lastList.json) = 2
    /\ lastList.json[1] # lastList.json[2]

\* C8: a request that got past its save step is answered nothing but 201 with
\* its record, whether its notification calls fail or its credentials are
\* absent; and a step in which a notification call settles changes neither
\* the file nor the module-level array.
C8_AnswerStays201 ==
    \A i \in DOMAIN persisted :
        res[persisted[i]].status # 0 =>
            res[persisted[i]] = Answer(201, <<RecordOf(persisted[i])>>)

C8_MailStepKeepsStore ==
    \A r \in Reqs :
        (pc[r] \in Mailing /\ pc'[r] \notin {pc[r], "gone"}) =>
            /\ file' = file
            /\ inMemoryAppointments' = inMemoryAppointments

C8_NotificationFailureHarmless == []C8_AnswerStays201 /\ [][C8_MailStepKeepsStore]_vars

\* A request whose notification call failed was answered 201 and its record
\* is in the collection.
C8_Witness ==
    \E r \in Reqs :
        /\ mailFailed = r
        /\ res[r].status = 201
        /\ RecordOf(r) \in Range(Wire(Stored))

\* C9: no two records of the file, and no two of the module-level array,
\* have the same id.
C9_NoDuplicateIds(arr) ==
    \A i, j \in DOMAIN arr : i # j => Get(arr[i], "id") # Get(arr[j], "id")

C9_IdsUnique ==
    /\ C9_NoDuplicateIds(JSONparse(file))
    /\ C9_NoDuplicateIds(inMemoryAppointments)

\* C10: every step of a book or GET request leaves the collection GET reads
\* with its former value as a prefix.
C10_AppendOnly ==
    [][(\E r \in Reqs : pc'[r] \notin {pc[r], "gone"}) => IsPrefix(Stored, Stored')]_vars

\* C11: a book request is answered nothing but 201, 400 or 409, failed reads
\* and failed writes included; a request answered 400 or 409 has created no
\* record and is not among the persisted; and only the create and save steps
\* of a request not yet answered (or a restart) change the file or the
\* module-level array.
C11_Definitive ==
    \A r \in Reqs :
        /\ res[r].status \in {0, 201, 400, 409}
        /\ res[r].status \in {400, 409} =>
            /\ newAppointment[r] = <<>>
            /\ \A i \in DOMAIN persisted : persisted[i] # r

C11_OnlyBookingsWrite ==
    (file' # file \/ inMemoryAppointments' # inMemoryAppointments) =>
        \/ \A r \in Reqs : pc'[r] \in {"idle", "gone"}
        \/ \E r \in Reqs :
            /\ pc[r] \in {"create", "save"}
            /\ pc'[r] \in {"save", "notify"}
            /\ res'[r].status = 0

C11_NoStorageError == []C11_Definitive /\ [][C11_OnlyBookingsWrite]_vars

\* The only request made so far had its read of the file fail, its write
\* succeed, and was answered 201.
C11_Witness ==
    /\ storageFailed
    /\ ~writeFailed[1]
    /\ res[1].status = 201
    /\ pc[2] = "idle"
    /\ Len(file) = 1

\* A step in which a GET is answered, and a step in which the process restarts.
ListStep == lastList'.status # 0 /\ lastList' # lastList
RestartStep == now' # now /\ \A r \in Reqs : pc'[r] \in {"idle", "gone"}

C12_ListKeepsStore ==
    ListStep => file' = file /\ inMemoryAppointments' = inMemoryAppointments

\* C12 as stated: a GET changes neither the file nor the module-level array,
\* and a GET answered after another, no book request having saved between
\* them, is given the same answer.
C12_RepeatedListIdentical ==
    [][/\ C12_ListKeepsStore
       /\ (lastList.status # 0 /\ lastList'.status # 0) => lastList' = lastList]_vars

\* C12 amended: a GET changes neither the file nor the module-level array;
\* a GET whose read succeeds is answered the stored collection; and no step
\* but the create and save steps of a book request and a restart changes the
\* stored collection, so that two GETs of one process whose reads succeed,
\* with no such step between them, are given the same answer.
C12_ReadAnswerIsStored ==
    lastList.status = 200 => lastList = Answer(200, Wire(Stored))

C12_StoreKeptBetween ==
    (/\ ~RestartStep
     /\ \A r \in Reqs : pc[r] \in {"create", "save"} => pc'[r] = pc[r]) =>
        Stored' = Stored

C12_SuccessfulListsIdentical ==
    /\ []C12_ReadAnswerIsStored
    /\ [][/\ C12_ListKeepsStore
          /\ C12_StoreKeptBetween
          /\ (lastList.status = 200 /\ lastList'.status = 200) => lastList' = lastList]_vars

\* Off Vercel a GET was answered the one record of the file while the
\* module-level array holds two, the second from a failed write.
C12_Witness ==
    /\ ~IS_VERCEL
    /\ lastList.status = 200
    /\ Len(lastList.json) = 1
    /\ Len(inMemoryAppointments) = 2

\* C13: a book request that got past validation and the conflict check is
\* in the end answered 201 by the process that took it, whether its calls to
\* the mail transport succeed, fail or never settle.
C13_EventuallyAnswered ==
    \A r \in Reqs : (pc[r] = "create") ~> (res[r].status = 201 \/ pc[r] = "gone")

\* C14: a request has notification calls made only once it is past its save
\* step, with all required fields and a record created, and before it is
\* answered; the patient mail is among them only if the body carried a
\* patientEmail; the first call is made in the step that ends the saving
\* turn; and a request answered 400 or 409 has made none and makes none.
C14_MailOnlyAfterSave ==
    \A r \in Reqs :
        /\ mail[r] # {} =>
            /\ pc[r] \in Mailing
            /\ \E i \in DOMAIN persisted : persisted[i] = r
            /\ ~MissingFields(body[r])
            /\ newAppointment[r] # <<>>
            /\ res[r].status = 0
        /\ "patient" \in mail[r] => ~Falsy(body[r].patientEmail)

C14_MailStartsAtNotify ==
    \A r \in Reqs :
        /\ (mail[r] = {} /\ mail'[r] # {}) => pc[r] = "notify"
        /\ (res[r].status = 0 /\ res'[r].status \in {400, 409}) =>
            mail[r] = {} /\ pc[r] \in {"idle", "check"}
        /\ pc[r] = "done" => mail'[r] = {}

C14_NotifyOnlyBooked == []C14_MailOnlyAfterSave /\ [][C14_MailStartsAtNotify]_vars

\* While a request with a patientEmail awaited its patient mail, a request
\* that began after it was saved was handled and answered 201.
C14_Witness ==
    \E r, q \in Reqs :
        /\ "patient" \in mail[r]
        /\ res[q].status = 201
        /\ \E i \in DOMAIN seen[q] : seen[q][i] = r

\* C15: a restart leaves the collection GET reads as it was off Vercel, each
\* of its records still taking its slot, and empties it on Vercel; and a
\* request whose read of the collection succeeded gets past the conflict
\* check only for a slot the collection does not hold.
C15_RestartKeepsFile ==
    RestartStep =>
        IF IS_VERCEL
        THEN Stored' = <<>>
        ELSE /\ Stored' = Stored
             /\ \A i \in DOMAIN Stored :
                    isTaken(Stored', Stored[i].appointment_date, Stored[i].appointment_time)

C15_StoredSlotBlocks ==
    \A r \in Reqs :
        (pc[r] = "create" /\ ~readFailed[r]) =>
            ~isTaken(Stored, body[r].appointment_date, body[r].appointment_time)

C15_RestartDurability == []C15_StoredSlotBlocks /\ [][C15_RestartKeepsFile]_vars

\* Off Vercel, after a restart, a request for the slot booked through the
\* former process was answered 409.
C15_Witness ==
    /\ ~IS_VERCEL
    /\ Len(file) = 1
    /\ \E r, q \in Reqs : pc[r] = "gone" /\ res[q].status = 409

\* C16: every record of the file, of the module-level array and of a
\* handler's local array has an appointment_date, an appointment_time and a
\* patientName that are present and not the empty string.
C16_HasFields(arr) ==
    \A i \in DOMAIN arr :
        \A k \in {"appointment_date", "appointment_time", "patientName"} :
            Get(arr[i], k) \notin {Undefined, ""}

C16_RecordsHaveFields ==
    /\ C16_HasFields(JSONparse(file))
    /\ C16_HasFields(inMemoryAppointments)
    /\ \A r \in Reqs : C16_HasFields(appointments[r])

\* On Vercel the module-level array holds the records of two bookings, both
\* answered 201.
C16_Witness ==
    /\ IS_VERCEL
    /\ Len(inMemoryAppointments) = 2
    /\ \A r \in Reqs : res[r].status = 201

\* C17: off Vercel a GET whose read fails is answered 500 'Failed to read
\* appointments' and changes neither the file nor the module-level array; a
\* book request whose read fails goes on with the empty array, past the
\* conflict check and on to its save; on Vercel no read fails and a GET is
\* answered 200 with the module-level array.
C17_ReadFailures ==
    /\ lastList.status \in {0, 200, 500}
    /\ lastList.status = 500 =>
        ~IS_VERCEL /\ lastList = Failure(500, "Failed to read appointments")
    /\ (IS_VERCEL /\ lastList.status # 0) =>
        lastList = Answer(200, Wire(inMemoryAppointments))
    /\ \A r \in Reqs :
        readFailed[r] =>
            /\ ~IS_VERCEL
            /\ res[r].status = 0
            /\ pc[r] \in {"check", "create", "save", "notify"}
            /\ pc[r] \in {"check", "create"} => appointments[r] = <<>>
            /\ pc[r] \in {"save", "notify"} => appointments[r] = <<newAppointment[r]>>

C17_FailedReadStep ==
    /\ (lastList'.status = 500 /\ lastList' # lastList) =>
        file' = file /\ inMemoryAppointments' = inMemoryAppointments
    /\ \A r \in Reqs :
        (readFailed[r] /\ pc'[r] # pc[r]) =>
            pc'[r] \in {"create", "save", "notify", "verify", "done", "gone"}
                /\ res'[r].status \in {0, 201}

C17_ReadFailureHandling == []C17_ReadFailures /\ [][C17_FailedReadStep]_vars

\* Off Vercel a second book request's read failed, so that its save left
\* its record alone in the file, and a GET after it was answered 500.
C17_Witness ==
    /\ ~IS_VERCEL
    /\ lastList.status = 500
    /\ storageFailed
    /\ \A r \in Reqs : ~writeFailed[r]
    /\ Len(persisted) = 2
    /\ Len(file) = 1

====
